---- MODULE Spec2Model ----
(***************************************************************************)
(* State-machine model of the authentication page component                *)
(* src/src/pages/user/login.vue (script setup, lines 1-355, and the event  *)
(* bindings of its template, lines 357-735).                               *)
(*                                                                         *)
(* Strings typed by the user are sequences of one-character strings, so    *)
(* that String.includes and the emptiness test are computed, not assumed.  *)
(* The browser's timer table and the promises of the API calls in flight   *)
(* are part of the state: a timer callback or a promise continuation is a  *)
(* step of its own, interleaved with the user's events.                    *)
(*                                                                         *)
(* Next composes every event.  SpecForm, SpecCode and SpecQR each take the *)
(* events of one controller of the page (submit handlers, verification     *)
(* code, QR panel) together with switchMode, the only function through     *)
(* which the controllers touch each other's state.  Script functions that  *)
(* the template binds behind a disabled check (sendVerificationCode) are   *)
(* entered through that binding; the others are entered by a call.         *)
(***************************************************************************)
EXTENDS Integers, Sequences, FiniteSets, TLC

\* ------------------------------------------------------------- bounds
\* Most browser timers alive at once (setInterval/setTimeout not yet cleared).
MaxTimers == 4
\* Most API calls awaiting their response at once.
MaxInFlight == 2
\* PHONE_CONFIG.sendInterval, the resend cooldown in seconds, scaled down.
SendInterval == 2

\* ------------------------------------------------------------- values
NULL == 0
TimerIds == 1..(MaxTimers + 2)
Undefined == <<"undefined">>
EmptyStr == << >>
PlaceholderQR == <<"data:image/svg+xml;base64">>

Modes == {"login", "register", "forgot"}
LoginTypes == {"code", "password"}

\* String.prototype.includes for a one-character needle.
Includes(s, c) == \E i \in 1..Len(s) : s[i] = c

\* JavaScript truthiness of a string: the empty string is falsy.
Truthy(s) == Len(s) > 0

Min(S) == CHOOSE x \in S : \A y \in S : x <= y

VARIABLES
  mounted,          \* the component instance is mounted (events can arrive)
  currentMode, loginType, isLoading, isSendingCode, codeCountdown,
  showWechatQR, wechatQRUrl, qrExpired, qrScanned,
  qrExpireTimer, qrCheckInterval,
  loginForm, phoneLoginForm, registerForm, forgotForm,
  loginErrors, registerErrors, forgotErrors,
  timers,           \* the browser's live timers: records [id, kind]
  pending,          \* API calls in flight, counted per API
  lastCall          \* what the last step ran, and what it emitted

uiVars == <<currentMode, loginType>>
busyVars == <<isLoading, isSendingCode, codeCountdown>>
qrVars == <<showWechatQR, wechatQRUrl, qrExpired, qrScanned,
            qrExpireTimer, qrCheckInterval>>
formVars == <<loginForm, phoneLoginForm, registerForm, forgotForm>>
errorVars == <<loginErrors, registerErrors, forgotErrors>>
vars == <<mounted, uiVars, busyVars, qrVars, formVars, errorVars,
          timers, pending, lastCall>>

\* ------------------------------------------------------------- step record
\* The object literal handed to an API call; absent keys are Undefined.
Payload(api, email, phone, password, code, newPassword, type) ==
  [api |-> api, email |-> email, phone |-> phone, password |-> password,
   code |-> code, newPassword |-> newPassword, type |-> type]

NoPayload == Payload("", Undefined, Undefined, Undefined, Undefined, Undefined, "")

NoValidation == [called |-> FALSE, isValid |-> FALSE, errors |-> {}]

\* event: what triggered the step; op: the script function that ran;
\* arg: its argument; validation: what the validator returned to it;
\* toast: the Toast call it made ("" when none); threw: an exception
\* left the function (its promise rejected).
\* payload: the argument of the API call the step started (NoPayload when
\* it started none).
Called(event, op, arg, validation, toast, threw, payload) ==
  [event |-> event, op |-> op, arg |-> arg, validation |-> validation,
   toast |-> toast, threw |-> threw, payload |-> payload]

Call(event, op, arg, validation, toast, threw) ==
  Called(event, op, arg, validation, toast, threw, NoPayload)

\* A Vue ref holding a Record<string,string>: `value` is what .value holds
\* (and what the template reads after unwrapping), `own` are properties
\* written on the ref object itself.  A map is modelled by the set of field
\* names that carry a message.
EmptyRef == [own |-> {}, value |-> {}]

\* ------------------------------------------------------------- timers
TimerIdsOf(T) == {t.id : t \in T}

\* setInterval / setTimeout: a handle that no live timer and no variable
\* of the component holds.
FreshTimerId(T, held) == Min(TimerIds \ (TimerIdsOf(T) \cup held))

\* clearTimeout / clearInterval: both remove the timer with that id.
ClearTimer(T, id) == {t \in T : t.id # id}

QRTimers(T) == {t \in T : t.kind \in {"qrCheck", "qrExpire"}}

\* The QR panel's part of the state, as one record the functions transform.
QRState == [show |-> showWechatQR, url |-> wechatQRUrl, expired |-> qrExpired,
            scanned |-> qrScanned, expireTimer |-> qrExpireTimer,
            checkInterval |-> qrCheckInterval, timers |-> timers]

SetQRState(q) ==
  /\ showWechatQR' = q.show
  /\ wechatQRUrl' = q.url
  /\ qrExpired' = q.expired
  /\ qrScanned' = q.scanned
  /\ qrExpireTimer' = q.expireTimer
  /\ qrCheckInterval' = q.checkInterval
  /\ timers' = q.timers

\* function clearQRTimers()
clearQRTimers(q) ==
  LET q1 == IF q.expireTimer # NULL
            THEN [q EXCEPT !.timers = ClearTimer(q.timers, q.expireTimer),
                           !.expireTimer = NULL]
            ELSE q
  IN IF q1.checkInterval # NULL
     THEN [q1 EXCEPT !.timers = ClearTimer(q1.timers, q1.checkInterval),
                     !.checkInterval = NULL]
     ELSE q1

\* async function handleWechatLogin(): it has no await, so it runs to its
\* end in one step.
handleWechatLogin(q) ==
  LET i == FreshTimerId(q.timers, {q.expireTimer, q.checkInterval})
      T1 == q.timers \cup {[id |-> i, kind |-> "qrCheck"]}
      e == FreshTimerId(T1, {q.expireTimer, i})
      T2 == T1 \cup {[id |-> e, kind |-> "qrExpire"]}
  IN [q EXCEPT !.show = TRUE, !.expired = FALSE, !.scanned = FALSE,
               !.url = PlaceholderQR, !.checkInterval = i,
               !.expireTimer = e, !.timers = T2]

\* async function refreshQRCode()
refreshQRCode(q) ==
  handleWechatLogin([clearQRTimers(q) EXCEPT !.expired = FALSE, !.scanned = FALSE])

\* function clearErrors()
clearErrors(r) == [r EXCEPT !.value = {}]

\* ------------------------------------------------------------- initial state
Init ==
  /\ mounted = TRUE
  /\ currentMode = "login"
  /\ loginType = "code"
  /\ isLoading = FALSE
  /\ isSendingCode = FALSE
  /\ codeCountdown = 0
  /\ showWechatQR = TRUE
  /\ wechatQRUrl = EmptyStr
  /\ qrExpired = FALSE
  /\ qrScanned = TRUE
  /\ qrExpireTimer = NULL
  /\ qrCheckInterval = NULL
  /\ loginForm = [account |-> EmptyStr, password |-> EmptyStr]
  /\ phoneLoginForm = [phone |-> EmptyStr, code |-> EmptyStr]
  /\ registerForm = [phone |-> EmptyStr, password |-> EmptyStr,
                     confirmPassword |-> EmptyStr, code |-> EmptyStr]
  /\ forgotForm = [phone |-> EmptyStr, code |-> EmptyStr,
                   newPassword |-> EmptyStr, confirmPassword |-> EmptyStr]
  /\ loginErrors = EmptyRef
  /\ registerErrors = EmptyRef
  /\ forgotErrors = EmptyRef
  /\ timers = {}
  /\ pending = [a \in {"sendCode", "login", "register", "resetPassword"} |-> 0]
  /\ lastCall = Call("setup", "setup", "", NoValidation, "", FALSE)

\* ------------------------------------------------------------- QR panel
\* handleWechatLogin called as the entry point of the panel.
HandleWechatLogin ==
  /\ mounted
  /\ Cardinality(timers) + 2 <= MaxTimers
  /\ SetQRState(handleWechatLogin(QRState))
  /\ lastCall' = Call("call", "handleWechatLogin", "", NoValidation, "", FALSE)
  /\ UNCHANGED <<mounted, uiVars, busyVars, formVars, errorVars, pending>>

\* refreshQRCode, the handler of the refresh button of the expired overlay.
RefreshQRCode ==
  /\ mounted
  /\ Cardinality(clearQRTimers(QRState).timers) + 2 <= MaxTimers
  /\ SetQRState(refreshQRCode(QRState))
  /\ lastCall' = Call("call", "refreshQRCode", "", NoValidation, "", FALSE)
  /\ UNCHANGED <<mounted, uiVars, busyVars, formVars, errorVars, pending>>

\* One run of the poll callback: its body is commented out.
QrCheckTick ==
  \E t \in timers :
    /\ t.kind = "qrCheck"
    /\ lastCall' = Call("timer", "qrCheckInterval.callback", "", NoValidation, "", FALSE)
    /\ UNCHANGED <<mounted, uiVars, busyVars, qrVars, formVars, errorVars,
                   timers, pending>>

qrExpireFlagsBothSet == [expired |-> TRUE, scanned |-> TRUE]

\* qrExpired = true; qrScanned = false at the head of the expiry callback.
qrExpireFlags == [expired |-> TRUE, scanned |-> FALSE]

\* The expiry timeout fires: a timeout runs once and is gone.
QrExpireFire ==
  \E t \in timers :
    /\ t.kind = "qrExpire"
    /\ qrExpired' = qrExpireFlags.expired
    /\ qrScanned' = qrExpireFlags.scanned
    /\ timers' = ClearTimer(timers \ {t}, qrCheckInterval)
    /\ qrCheckInterval' = NULL
    /\ lastCall' = Call("timer", "qrExpireTimer.callback", "", NoValidation,
                        "info:qr-expired", FALSE)
    /\ UNCHANGED <<mounted, uiVars, busyVars, showWechatQR, wechatQRUrl,
                   qrExpireTimer, formVars, errorVars, pending>>

\* ------------------------------------------------------------- mode switch
\* The panel torn down on every switch, whatever the target mode.
switchModeAlwaysHides(mode, q) ==
  [clearQRTimers(q) EXCEPT !.show = FALSE, !.expired = FALSE]

\* function switchMode(mode), as a transformer of the state it touches.
switchMode(mode, q) ==
  IF mode \in {"register", "forgot"} /\ q.show
  THEN [clearQRTimers(q) EXCEPT !.show = FALSE, !.expired = FALSE]
  ELSE q

SwitchMode(mode) ==
  /\ mounted
  /\ currentMode' = mode
  /\ loginErrors' = clearErrors(loginErrors)
  /\ registerErrors' = clearErrors(registerErrors)
  /\ forgotErrors' = clearErrors(forgotErrors)
  /\ SetQRState(switchMode(mode, QRState))
  /\ lastCall' = Call("call", "switchMode", mode, NoValidation, "", FALSE)
  /\ UNCHANGED <<mounted, loginType, busyVars, formVars, pending>>

\* ------------------------------------------------------------- teardown
\* onBeforeUnmount(() => clearQRTimers()); afterwards no UI event arrives.
Unmount ==
  /\ mounted
  /\ mounted' = FALSE
  /\ SetQRState(clearQRTimers(QRState))
  /\ lastCall' = Call("lifecycle", "onBeforeUnmount", "", NoValidation, "", FALSE)
  /\ UNCHANGED <<uiVars, busyVars, formVars, errorVars, pending>>

\* ------------------------------------------------------------- form input
\* What the user may have typed into each form (v-model), besides leaving
\* it empty as constructed.
LoginFormInputs ==
  {[account |-> <<"a", "@", "b">>, password |-> <<"p">>]}

PhoneLoginFormInputs ==
  {[phone |-> <<"1", "3", "8">>, code |-> <<"6">>]}

RegisterFormInputs ==
  {[phone |-> <<"1", "3", "8">>, password |-> <<"p">>,
    confirmPassword |-> c, code |-> <<"6">>] : c \in {<<"p">>, <<"q">>}}

ForgotFormInputs ==
  {[phone |-> <<"1", "3", "8">>, code |-> <<"6">>,
    newPassword |-> <<"p">>, confirmPassword |-> c] : c \in {<<"p">>, <<"q">>}}

\* The inputs the template renders are those of the current mode's form
\* (login mode: of the form loginType selects).
Input ==
  /\ mounted
  /\ \/ /\ currentMode = "login" /\ loginType = "password"
        /\ \E f \in LoginFormInputs : loginForm' = f
        /\ UNCHANGED <<phoneLoginForm, registerForm, forgotForm>>
     \/ /\ currentMode = "login" /\ loginType = "code"
        /\ \E f \in PhoneLoginFormInputs : phoneLoginForm' = f
        /\ UNCHANGED <<loginForm, registerForm, forgotForm>>
     \/ /\ currentMode = "register"
        /\ \E f \in RegisterFormInputs : registerForm' = f
        /\ UNCHANGED <<loginForm, phoneLoginForm, forgotForm>>
     \/ /\ currentMode = "forgot"
        /\ \E f \in ForgotFormInputs : forgotForm' = f
        /\ UNCHANGED <<loginForm, phoneLoginForm, registerForm>>
  /\ lastCall' = Call("input", "v-model", "", NoValidation, "", FALSE)
  /\ UNCHANGED <<mounted, uiVars, busyVars, qrVars, errorVars, timers, pending>>

\* The two tabs of the login mode: @click="loginType = 'code' | 'password'".
SelectLoginType(t) ==
  /\ mounted
  /\ currentMode = "login"
  /\ loginType' = t
  /\ lastCall' = Call("click:login-tab", "loginType=", t, NoValidation, "", FALSE)
  /\ UNCHANGED <<mounted, currentMode, busyVars, qrVars, formVars, errorVars,
                 timers, pending>>

\* ------------------------------------------------------------- validation
\* validateLoginForm / validateRegisterForm / validateResetPasswordForm live
\* in @/utils/validation.ts: pure functions from a field bundle to
\* {isValid, errors}.  Their verdict on a bundle is left open: either
\* valid, or invalid with one of these sets of per-field messages.
LoginErrorSets == {{"phone"}, {"phone", "code"}}
RegisterErrorSets == {{"phone", "password"}}
ResetErrorSets == {{"newPassword"}}

ValidationResults(errorSets) ==
  {[called |-> TRUE, isValid |-> TRUE, errors |-> {}]}
    \cup {[called |-> TRUE, isValid |-> FALSE, errors |-> E] : E \in errorSets}

validateLoginForm(bundle) == ValidationResults(LoginErrorSets)
validateRegisterForm(bundle) == ValidationResults(RegisterErrorSets)
validateResetPasswordForm(bundle) == ValidationResults(ResetErrorSets)

\* ------------------------------------------------------------- API calls
\* pending[api] = how many calls of that API await their response.
Apis == {"sendCode", "login", "register", "resetPassword"}
AuthApis == {"login", "register", "resetPassword"}

RECURSIVE Sum(_, _)
Sum(f, S) == IF S = {} THEN 0
             ELSE LET x == CHOOSE y \in S : TRUE IN f[x] + Sum(f, S \ {x})

InFlight(api) == pending[api]
AuthInFlight == Sum(pending, AuthApis)

\* Starting an async call: its promise is pending until the response step.
StartCall(api) == [pending EXCEPT ![api] = @ + 1]

\* The promise settles and the function resumes after its await.
Settle(api) == [pending EXCEPT ![api] = @ - 1]

CanStartCall == Sum(pending, Apis) < MaxInFlight

\* ------------------------------------------------------------- submit handlers
\* Object.assign(target, errors) with target one of the error refs: the
\* keys of errors become properties of the ref object, its .value is not
\* touched.
ObjectAssign(ref, errors) == [ref EXCEPT !.own = @ \cup errors]

\* The check forgotten: an invalid bundle goes on to the API call.
ValidationFailsNever(validation) == FALSE

\* if (!validation.isValid) { Object.assign(...); return }
ValidationFails(validation) == ~validation.isValid

\* The part the four handlers share after the validator returned:
\* which = the error ref the handler assigns to.
AfterValidation(event, op, which, validation, api, payload) ==
  IF ValidationFails(validation)
  THEN /\ loginErrors' = IF which = "login"
                         THEN ObjectAssign(loginErrors, validation.errors)
                         ELSE loginErrors
       /\ registerErrors' = IF which = "register"
                            THEN ObjectAssign(registerErrors, validation.errors)
                            ELSE registerErrors
       /\ forgotErrors' = IF which = "forgot"
                          THEN ObjectAssign(forgotErrors, validation.errors)
                          ELSE forgotErrors
       /\ lastCall' = Call(event, op, "", validation, "", FALSE)
       /\ UNCHANGED <<isLoading, pending>>
  ELSE /\ CanStartCall
       /\ isLoading' = TRUE
       /\ pending' = StartCall(api)
       /\ lastCall' = Called(event, op, "", validation, "", FALSE, payload)
       /\ UNCHANGED errorVars

\* The comparison forgotten: a differing confirmation goes on to validation.
PasswordsDifferNever(password, confirmPassword) == FALSE

\* registerForm.password !== registerForm.confirmPassword, and the same
\* test on forgotForm.newPassword
PasswordsDiffer(password, confirmPassword) == password # confirmPassword

\* if (password !== confirmPassword) { Toast.error(...); return }
PasswordMismatch(event, op) ==
  /\ lastCall' = Call(event, op, "", NoValidation, "error:password-mismatch", FALSE)
  /\ UNCHANGED <<isLoading, pending, errorVars>>

\* async function handleLogin(), up to its await
handleLoginPayload ==
  LET isEmail == Includes(loginForm.account, "@")
  IN Payload("login",
             IF isEmail THEN loginForm.account ELSE Undefined,
             IF ~isEmail THEN loginForm.account ELSE Undefined,
             loginForm.password, Undefined, Undefined, "email")

HandleLogin(event) ==
  /\ mounted
  /\ \E validation \in validateLoginForm(handleLoginPayload) :
       AfterValidation(event, "handleLogin", "login", validation, "login",
                       handleLoginPayload)
  /\ UNCHANGED <<mounted, uiVars, isSendingCode, codeCountdown, qrVars,
                 formVars, timers>>

\* async function handlePhoneCodeLogin(), up to its await
handlePhoneCodeLoginPayload ==
  Payload("login", Undefined, phoneLoginForm.phone, Undefined,
          phoneLoginForm.code, Undefined, "phone")

HandlePhoneCodeLogin(event) ==
  /\ mounted
  /\ \E validation \in validateLoginForm(handlePhoneCodeLoginPayload) :
       AfterValidation(event, "handlePhoneCodeLogin", "login", validation,
                       "login", handlePhoneCodeLoginPayload)
  /\ UNCHANGED <<mounted, uiVars, isSendingCode, codeCountdown, qrVars,
                 formVars, timers>>

\* async function handleRegister(), up to its await
handleRegisterPayload ==
  Payload("register", Undefined, registerForm.phone, registerForm.password,
          registerForm.code, Undefined, "")

HandleRegister(event) ==
  /\ mounted
  /\ IF PasswordsDiffer(registerForm.password, registerForm.confirmPassword)
     THEN PasswordMismatch(event, "handleRegister")
     ELSE \E validation \in validateRegisterForm(handleRegisterPayload) :
            AfterValidation(event, "handleRegister", "register", validation,
                            "register", handleRegisterPayload)
  /\ UNCHANGED <<mounted, uiVars, isSendingCode, codeCountdown, qrVars,
                 formVars, timers>>

\* async function handleForgotPassword(), up to its await
handleForgotPasswordPayload ==
  Payload("resetPassword", Undefined, forgotForm.phone, Undefined,
          forgotForm.code, forgotForm.newPassword, "")

HandleForgotPassword(event) ==
  /\ mounted
  /\ IF PasswordsDiffer(forgotForm.newPassword, forgotForm.confirmPassword)
     THEN PasswordMismatch(event, "handleForgotPassword")
     ELSE \E validation \in validateResetPasswordForm(handleForgotPasswordPayload) :
            AfterValidation(event, "handleForgotPassword", "forgot", validation,
                            "resetPassword", handleForgotPasswordPayload)
  /\ UNCHANGED <<mounted, uiVars, isSendingCode, codeCountdown, qrVars,
                 formVars, timers>>

\* The submit button of each mode, as the template binds it.
ClickLoginSubmit ==
  /\ currentMode = "login"
  /\ HandlePhoneCodeLogin("click:login-submit")

ClickRegisterSubmit ==
  /\ currentMode = "register"
  /\ HandleRegister("click:register-submit")

ClickForgotSubmit ==
  /\ currentMode = "forgot"
  /\ HandleForgotPassword("click:forgot-submit")

\* handleLogin is bound to no element of the template: it is reached only
\* by a call of the function.
CallHandleLogin == HandleLogin("call")

\* ------------------------------------------------------------- responses
\* authStore.login / authStore.register settle: the handler resumes after
\* its await, the result is not read, finally { isLoading = false }.  A
\* rejection passes through the try/finally and leaves the handler.
LoginSettles(outcome) ==
    /\ InFlight("login") > 0
    /\ pending' = Settle("login")
    /\ isLoading' = FALSE
    /\ lastCall' = Call("promise", "login.then", outcome, NoValidation, "",
                        outcome = "threw")
    /\ UNCHANGED <<mounted, uiVars, isSendingCode, codeCountdown, qrVars,
                   formVars, errorVars, timers>>

RegisterSettles(outcome) ==
    /\ InFlight("register") > 0
    /\ pending' = Settle("register")
    /\ isLoading' = FALSE
    /\ lastCall' = Call("promise", "register.then", outcome, NoValidation, "",
                        outcome = "threw")
    /\ UNCHANGED <<mounted, uiVars, isSendingCode, codeCountdown, qrVars,
                   formVars, errorVars, timers>>

\* authStore.resetPassword settles: on response.success the handler calls
\* switchMode('login'), which runs whether or not the component is still
\* mounted.
ResetPasswordSettles(outcome) ==
    /\ InFlight("resetPassword") > 0
    /\ pending' = Settle("resetPassword")
    /\ isLoading' = FALSE
    /\ IF outcome = "success"
       THEN /\ currentMode' = "login"
            /\ loginErrors' = clearErrors(loginErrors)
            /\ registerErrors' = clearErrors(registerErrors)
            /\ forgotErrors' = clearErrors(forgotErrors)
            /\ SetQRState(switchMode("login", QRState))
            /\ lastCall' = Call("promise", "resetPassword.then", outcome,
                                NoValidation, "success:reset-ok", FALSE)
       ELSE /\ lastCall' = Call("promise", "resetPassword.then", outcome,
                                NoValidation,
                                IF outcome = "failure" THEN "error:reset-failed" ELSE "",
                                outcome = "threw")
            /\ UNCHANGED <<currentMode, errorVars, qrVars, timers>>
    /\ UNCHANGED <<mounted, loginType, isSendingCode, codeCountdown, formVars>>

\* ------------------------------------------------------------- form specification
NextForm ==
  \/ Input
  \/ \E t \in LoginTypes : SelectLoginType(t)
  \/ ClickLoginSubmit
  \/ ClickRegisterSubmit
  \/ ClickForgotSubmit
  \/ CallHandleLogin
  \/ \E o \in {"resolved", "threw"} : LoginSettles(o)
  \/ \E o \in {"resolved", "threw"} : RegisterSettles(o)
  \/ \E o \in {"success", "failure", "threw"} : ResetPasswordSettles(o)
  \/ \E m \in Modes : SwitchMode(m)

SpecForm == Init /\ [][NextForm]_vars

\* ------------------------------------------------------------- submit buttons
\* The loading prop never bound: the button always looks idle.
SubmitLoadingUnbound == FALSE

\* :loading="isLoading" of the three submit buttons
SubmitLoading == isLoading

\* BaseButton (@/components/BaseButton.vue) with :loading set emits no click.
BaseButtonIdle(loading) == ~loading

PressLoginSubmit == BaseButtonIdle(SubmitLoading) /\ ClickLoginSubmit
PressRegisterSubmit == BaseButtonIdle(SubmitLoading) /\ ClickRegisterSubmit
PressForgotSubmit == BaseButtonIdle(SubmitLoading) /\ ClickForgotSubmit

\* The submissions the page can make: the three submit buttons, each
\* taking a click only while it is not loading.
NextSubmit ==
  \/ Input
  \/ \E t \in LoginTypes : SelectLoginType(t)
  \/ PressLoginSubmit
  \/ PressRegisterSubmit
  \/ PressForgotSubmit
  \/ \E o \in {"resolved", "threw"} : LoginSettles(o)
  \/ \E o \in {"resolved", "threw"} : RegisterSettles(o)
  \/ \E o \in {"success", "failure", "threw"} : ResetPasswordSettles(o)
  \/ \E m \in Modes : SwitchMode(m)

SpecSubmit == Init /\ [][NextSubmit]_vars

\* ------------------------------------------------------------- verification code
\* PHONE_CONFIG of @/config/auth.ts: phoneRegex.test(phone) and sendInterval.
WellFormedPhones == {<<"1", "3", "8">>}
PhoneRegexTest(phone) == phone \in WellFormedPhones

PhoneInputs == {EmptyStr, <<"1", "2">>, <<"1", "3", "8">>}

\* Typing into the phone input of the form the template renders.
InputPhone ==
  /\ mounted
  /\ \E ph \in PhoneInputs :
       \/ /\ currentMode = "login" /\ loginType = "code"
          /\ phoneLoginForm' = [phoneLoginForm EXCEPT !.phone = ph]
          /\ UNCHANGED <<loginForm, registerForm, forgotForm>>
       \/ /\ currentMode = "register"
          /\ registerForm' = [registerForm EXCEPT !.phone = ph]
          /\ UNCHANGED <<loginForm, phoneLoginForm, forgotForm>>
       \/ /\ currentMode = "forgot"
          /\ forgotForm' = [forgotForm EXCEPT !.phone = ph]
          /\ UNCHANGED <<loginForm, phoneLoginForm, registerForm>>
  /\ lastCall' = Call("input", "v-model", "phone", NoValidation, "", FALSE)
  /\ UNCHANGED <<mounted, uiVars, busyVars, qrVars, errorVars, timers, pending>>

\* The button disabled only while the countdown runs.
ResendDisabledWhileCounting == codeCountdown > 0

\* The button disabled only while the request is in flight.
ResendDisabledWhileSending == isSendingCode

\* :disabled="isSendingCode || codeCountdown > 0" of the three resend buttons
ResendDisabled == isSendingCode \/ codeCountdown > 0

CountdownTimers(T) == {t \in T : t.kind = "countdown"}

\* async function sendVerificationCode(phone, type), up to its await
sendVerificationCode(event, phone, type) ==
  IF ~Truthy(phone)
  THEN /\ lastCall' = Call(event, "sendVerificationCode", type, NoValidation,
                           "error:phone-required", FALSE)
       /\ UNCHANGED <<isSendingCode, pending>>
  ELSE IF ~PhoneRegexTest(phone)
  THEN /\ lastCall' = Call(event, "sendVerificationCode", type, NoValidation,
                           "error:phone-invalid", FALSE)
       /\ UNCHANGED <<isSendingCode, pending>>
  ELSE /\ CanStartCall
       /\ isSendingCode' = TRUE
       /\ pending' = StartCall("sendCode")
       /\ lastCall' = Called(event, "sendVerificationCode", type, NoValidation, "",
                             FALSE,
                             Payload("sendCode", Undefined, phone, Undefined,
                                     Undefined, Undefined, type))

\* BaseButton (@/components/BaseButton.vue) with :disabled set emits no click.
BaseButtonClickable(disabled) == ~disabled

\* The resend button of the form on screen.
ClickSendCode ==
  /\ mounted
  /\ BaseButtonClickable(ResendDisabled)
  /\ \/ /\ currentMode = "login" /\ loginType = "code"
        /\ sendVerificationCode("click:send-code", phoneLoginForm.phone, "login")
     \/ /\ currentMode = "register"
        /\ sendVerificationCode("click:send-code", registerForm.phone, "register")
     \/ /\ currentMode = "forgot"
        /\ sendVerificationCode("click:send-code", forgotForm.phone, "reset_password")
  /\ UNCHANGED <<mounted, uiVars, isLoading, codeCountdown, qrVars, formVars,
                 errorVars, timers>>

\* No catch clause: the rejection leaves the function and nothing is shown.
sendCodeNoCatch == [toast |-> "", threw |-> TRUE]

\* catch (error) { console.error(...); Toast.error('发送验证码失败') }
sendCodeCatch == [toast |-> "error:send-failed", threw |-> FALSE]

\* Any response starts the countdown, whatever its success flag.
StartsCountdownOnAnyResponse(outcome) == outcome \in {"success", "failure"}

\* if (response.success)
StartsCountdown(outcome) == outcome = "success"

\* The interval stops only below zero.
CountdownDoneBelowZero(c) == c < 0

\* if (codeCountdown <= 0) clearInterval(timer)
CountdownDone(c) == c <= 0

\* sendCode settles and sendVerificationCode resumes after its await.
SendCodeSettles(outcome) ==
  /\ InFlight("sendCode") > 0
  /\ pending' = Settle("sendCode")
  /\ isSendingCode' = FALSE
  /\ IF outcome # "threw" /\ StartsCountdown(outcome)
     THEN /\ Cardinality(timers) < MaxTimers
          /\ codeCountdown' = SendInterval
          /\ timers' = timers \cup
               {[id |-> FreshTimerId(timers, {qrExpireTimer, qrCheckInterval}),
                 kind |-> "countdown"]}
          /\ lastCall' = Call("promise", "sendCode.then", outcome, NoValidation,
                              "success:code-sent", FALSE)
     ELSE /\ lastCall' = IF outcome = "threw"
                         THEN Call("promise", "sendCode.then", outcome, NoValidation,
                                   sendCodeCatch.toast, sendCodeCatch.threw)
                         ELSE Call("promise", "sendCode.then", outcome, NoValidation,
                                   "error:send-failed-msg", FALSE)
          /\ UNCHANGED <<codeCountdown, timers>>
  /\ UNCHANGED <<mounted, uiVars, isLoading, qrVars, formVars, errorVars>>

\* One run of the one-second callback: codeCountdown--, and the interval
\* clears itself once the count is at or below zero.
CountdownTick ==
  \E t \in CountdownTimers(timers) :
    /\ codeCountdown' = codeCountdown - 1
    /\ timers' = IF CountdownDone(codeCountdown') THEN timers \ {t} ELSE timers
    /\ lastCall' = Call("timer", "countdown.callback", "", NoValidation, "", FALSE)
    /\ UNCHANGED <<mounted, uiVars, isLoading, isSendingCode, qrVars, formVars,
                   errorVars, pending>>

\* ------------------------------------------------------------- code specification
NextCode ==
  \/ InputPhone
  \/ \E t \in LoginTypes : SelectLoginType(t)
  \/ ClickSendCode
  \/ \E o \in {"success", "failure", "threw"} : SendCodeSettles(o)
  \/ CountdownTick
  \/ \E m \in Modes : SwitchMode(m)
  \/ Unmount

SpecCode == Init /\ [][NextCode]_vars

\* setInterval keeps calling the countdown callback while the interval is
\* live: a tick that stays possible is eventually taken.
SpecCodeFair == SpecCode /\ WF_vars(CountdownTick)

\* Every function of the page that awaits an API call, with the login tab
\* left on 'code': the three submit buttons, handleLogin called directly,
\* and the resend button.
NextAsync ==
  \/ Input
  \/ PressLoginSubmit
  \/ PressRegisterSubmit
  \/ PressForgotSubmit
  \/ CallHandleLogin
  \/ \E o \in {"resolved", "threw"} : LoginSettles(o)
  \/ \E o \in {"resolved", "threw"} : RegisterSettles(o)
  \/ \E o \in {"success", "failure", "threw"} : ResetPasswordSettles(o)
  \/ ClickSendCode
  \/ \E o \in {"success", "failure", "threw"} : SendCodeSettles(o)
  \/ CountdownTick
  \/ \E m \in Modes : SwitchMode(m)

SpecAsync == Init /\ [][NextAsync]_vars

\* ------------------------------------------------------------- QR specification
NextQR ==
  \/ HandleWechatLogin
  \/ RefreshQRCode
  \/ QrCheckTick
  \/ QrExpireFire
  \/ \E m \in Modes : SwitchMode(m)
  \/ Unmount

SpecQR == Init /\ [][NextQR]_vars

\* ------------------------------------------------------------- mode specification
\* switchMode called while the rest of the page is busy: forms being
\* typed into, a register submission and a code request in flight, the
\* countdown running, QR timers live.
NextMode ==
  \/ Input
  \/ \E t \in LoginTypes : SelectLoginType(t)
  \/ PressRegisterSubmit
  \/ \E o \in {"resolved", "threw"} : RegisterSettles(o)
  \/ ClickSendCode
  \/ \E o \in {"success", "failure", "threw"} : SendCodeSettles(o)
  \/ CountdownTick
  \/ HandleWechatLogin
  \/ \E m \in Modes : SwitchMode(m)

SpecMode == Init /\ [][NextMode]_vars

\* ------------------------------------------------------------- the component
\* Every event the component can receive, in any order.
Next ==
  \/ Input
  \/ InputPhone
  \/ \E t \in LoginTypes : SelectLoginType(t)
  \/ ClickLoginSubmit
  \/ ClickRegisterSubmit
  \/ ClickForgotSubmit
  \/ CallHandleLogin
  \/ \E o \in {"resolved", "threw"} : LoginSettles(o)
  \/ \E o \in {"resolved", "threw"} : RegisterSettles(o)
  \/ \E o \in {"success", "failure", "threw"} : ResetPasswordSettles(o)
  \/ ClickSendCode
  \/ \E o \in {"success", "failure", "threw"} : SendCodeSettles(o)
  \/ CountdownTick
  \/ HandleWechatLogin
  \/ RefreshQRCode
  \/ QrCheckTick
  \/ QrExpireFire
  \/ \E m \in Modes : SwitchMode(m)
  \/ Unmount

Spec == Init /\ [][Next]_vars

\* ------------------------------------------------------------- properties
SubmitHandlers ==
  {"handleLogin", "handlePhoneCodeLogin", "handleRegister", "handleForgotPassword"}

\* The error ref a submit handler reports to.
ErrorRefOf(op) ==
  IF op \in {"handleLogin", "handlePhoneCodeLogin"} THEN loginErrors
  ELSE IF op = "handleRegister" THEN registerErrors
  ELSE forgotErrors

\* The last step was a submit handler whose validator answered isValid = false.
RejectedSubmission ==
  /\ lastCall.op \in SubmitHandlers
  /\ lastCall.validation.called
  /\ ~lastCall.validation.isValid

\* C1: a submission whose validator returns isValid = false starts no
\* auth-store call and does not touch isLoading.
C1_InvalidSubmitStartsNoCall ==
  [][RejectedSubmission' =>
       /\ pending' = pending
       /\ isLoading' = isLoading
       /\ lastCall'.payload = NoPayload]_vars

C1_Witness ==
  /\ RejectedSubmission
  /\ lastCall.op = "handleRegister"
  /\ ~isLoading
  /\ AuthInFlight = 0

\* C2: after a rejected submission, the map the template reads (the ref's
\* value) holds every field message the validator returned.
C2_ErrorsShownAfterRejectedSubmit ==
  RejectedSubmission => lastCall.validation.errors \subseteq ErrorRefOf(lastCall.op).value

\* C3: the login submit button forwards the payload of the form that
\* loginType selects: loginForm's for 'password', phoneLoginForm's for 'code'.
C3_LoginSubmitFollowsLoginType ==
  (lastCall.event = "click:login-submit" /\ lastCall.validation.isValid) =>
     lastCall.payload = IF loginType = "password" THEN handleLoginPayload
                        ELSE handlePhoneCodeLoginPayload

\* An error ref carries no field message, neither in its value nor as
\* properties of the ref object.
CarriesNoMessage(ref) == ref.value = {} /\ ref.own = {}

\* C4: after switchMode(m), currentMode = m and none of the three error
\* maps carries a field message.
C4_SwitchModeClearsAllErrors ==
  lastCall.op = "switchMode" =>
     /\ currentMode = lastCall.arg
     /\ CarriesNoMessage(loginErrors)
     /\ CarriesNoMessage(registerErrors)
     /\ CarriesNoMessage(forgotErrors)

\* C5: while a sendCode request is in flight or the countdown is above
\* zero the resend control is disabled, so a send starts only when no
\* request is in flight and no countdown is running: never two requests
\* at once, never a request during a countdown, never two countdowns.
C5_ResendBlockedWhileBusy ==
  /\ (isSendingCode \/ codeCountdown > 0) => ResendDisabled
  /\ (InFlight("sendCode") > 0 \/ CountdownTimers(timers) # {}) => ResendDisabled
  /\ InFlight("sendCode") <= 1
  /\ Cardinality(CountdownTimers(timers)) <= 1
  /\ ~(InFlight("sendCode") > 0 /\ CountdownTimers(timers) # {})

C5_Witness ==
  /\ mounted
  /\ currentMode = "register"
  /\ codeCountdown > 0
  /\ ~isSendingCode
  /\ ResendDisabled
  /\ lastCall.op = "countdown.callback"

\* C6: at most one poll interval and at most one expiry timeout are live.
C6_NoDuplicateQRTimers ==
  /\ Cardinality({t \in timers : t.kind = "qrCheck"}) <= 1
  /\ Cardinality({t \in timers : t.kind = "qrExpire"}) <= 1

QRCallbacks == {"qrCheckInterval.callback", "qrExpireTimer.callback"}

\* C7: once the component is unmounted no QR poll or expiry callback runs
\* and qrExpired and qrScanned do not change.
C7_NoQRCallbackAfterUnmount ==
  [][~mounted =>
       /\ lastCall'.op \notin QRCallbacks
       /\ UNCHANGED <<qrExpired, qrScanned>>]_vars

\* C8: once the component is unmounted no state of the component changes.
C8_NoMutationAfterUnmount ==
  [][~mounted => UNCHANGED <<uiVars, busyVars, qrVars, formVars, errorVars>>]_vars

\* C9: switchMode('register') or switchMode('forgot') in login mode leaves
\* the QR panel hidden, both handles null and no QR timer left to fire.
C9_SwitchAwayTearsDownQR ==
  [][(currentMode = "login" /\ lastCall'.op = "switchMode"
        /\ lastCall'.arg \in {"register", "forgot"}) =>
       /\ ~showWechatQR'
       /\ qrExpireTimer' = NULL
       /\ qrCheckInterval' = NULL
       /\ QRTimers(timers') = {}]_vars

\* C10: a QR handle is non-null only while the timer it names is live.
C10_HandlesNameLiveTimers ==
  /\ qrCheckInterval # NULL => [id |-> qrCheckInterval, kind |-> "qrCheck"] \in timers
  /\ qrExpireTimer # NULL => [id |-> qrExpireTimer, kind |-> "qrExpire"] \in timers

\* C11: isLoading is true exactly while an auth-store call started by a
\* submit button is in flight, and at most one such call is in flight at
\* any time, whatever mode switches happen meanwhile.
C11_LoadingTracksSingleSubmission ==
  /\ isLoading <=> AuthInFlight > 0
  /\ AuthInFlight <= 1

C11_Witness ==
  /\ isLoading
  /\ InFlight("register") = 1
  /\ currentMode = "login"
  /\ lastCall.op = "switchMode"

\* The last step resumed a function whose awaited call threw.
ResumedAfterThrow == lastCall.event = "promise" /\ lastCall.arg = "threw"

BusyFlagOf(op) == IF op = "sendCode.then" THEN isSendingCode ELSE isLoading

\* C12 as stated: in all five functions a throwing call is caught, a
\* generic error toast is shown and the busy flag is false again.
C12_ThrowCaughtEverywhere ==
  ResumedAfterThrow =>
     /\ ~lastCall.threw
     /\ lastCall.toast # ""
     /\ ~BusyFlagOf(lastCall.op)

\* C12 amended: sendVerificationCode catches the throw, shows its error
\* toast and clears isSendingCode; the four submit handlers clear
\* isLoading but catch nothing: the rejection leaves the handler and the
\* handler shows no toast.
C12_ThrowHandling ==
  ResumedAfterThrow =>
     IF lastCall.op = "sendCode.then"
     THEN ~lastCall.threw /\ lastCall.toast = "error:send-failed" /\ ~isSendingCode
     ELSE lastCall.threw /\ lastCall.toast = "" /\ ~isLoading

C12_Witness ==
  /\ ResumedAfterThrow
  /\ lastCall.op = "resetPassword.then"
  /\ lastCall.threw
  /\ ~isLoading
  /\ currentMode = "forgot"

\* The phase of the QR session a state is in.
QRPhase ==
  IF ~showWechatQR THEN "hidden"
  ELSE IF qrExpired THEN "expired"
  ELSE IF qrScanned THEN "scanned"
  ELSE "showing"

QRStartOps == {"handleWechatLogin", "refreshQRCode"}

\* The steps of hidden -> showing -> {scanned | expired} -> hidden/refreshed.
QRPhaseStep ==
  \/ QRPhase' = QRPhase
  \/ QRPhase' = "showing" /\ lastCall'.op \in QRStartOps
  \/ QRPhase = "showing" /\ QRPhase' \in {"scanned", "expired"}
  \/ QRPhase' = "hidden"

\* C13: the session starts hidden, with no flag set and no timer (and then
\* moves only along the steps above, which C13_QRPhaseSteps states).
C13_QRStartsHidden ==
  lastCall.op = "setup" =>
     /\ QRPhase = "hidden"
     /\ ~qrScanned /\ ~qrExpired
     /\ qrExpireTimer = NULL /\ qrCheckInterval = NULL

C13_QRPhaseSteps == [][QRPhaseStep]_vars

\* C14: a successful sendCode sets codeCountdown to the configured
\* interval, each tick takes exactly one off, the count reaches exactly 0
\* under fair ticking, and at 0 the interval is gone and the resend
\* control is enabled unless a send is in flight.
C14_CountdownRunsToZero ==
  /\ []((lastCall.op = "sendCode.then" /\ lastCall.arg = "success")
          => codeCountdown = SendInterval)
  /\ [][lastCall'.op = "countdown.callback" => codeCountdown' = codeCountdown - 1]_vars
  /\ [](codeCountdown >= 0)
  /\ [](codeCountdown = 0 =>
          /\ CountdownTimers(timers) = {}
          /\ (~isSendingCode => ~ResendDisabled))
  /\ (codeCountdown > 0 ~> codeCountdown = 0)

C14_Witness ==
  /\ lastCall.op = "countdown.callback"
  /\ codeCountdown = 0
  /\ CountdownTimers(timers) = {}
  /\ ~ResendDisabled

QRPollTimers(T) == {t \in T : t.kind = "qrCheck"}

QRExpiryTimers(T) == {t \in T : t.kind = "qrExpire"}

\* C15: when the expiry timeout fires qrExpired becomes true, qrScanned
\* false, the poll handle null and no poll interval stays live; no poll
\* tick runs while the code is expired.
C15_ExpiryStopsPolling ==
  [][/\ lastCall'.op = "qrExpireTimer.callback" =>
          /\ qrExpired' /\ ~qrScanned'
          /\ qrCheckInterval' = NULL
          /\ QRPollTimers(timers') = {}
     /\ qrExpired => lastCall'.op # "qrCheckInterval.callback"]_vars

\* C16: after refreshQRCode the panel is shown, neither flag is set, and
\* exactly one poll interval and one expiry timeout are live, the ones the
\* handles name.
C16_RefreshRestartsFlow ==
  [][lastCall'.op = "refreshQRCode" =>
       /\ showWechatQR' /\ ~qrExpired' /\ ~qrScanned'
       /\ QRPollTimers(timers') = {[id |-> qrCheckInterval', kind |-> "qrCheck"]}
       /\ QRExpiryTimers(timers') = {[id |-> qrExpireTimer', kind |-> "qrExpire"]}]_vars

\* The phone the resend button on screen passes to sendVerificationCode.
SendCodePhone ==
  IF currentMode = "login" THEN phoneLoginForm.phone
  ELSE IF currentMode = "register" THEN registerForm.phone
  ELSE forgotForm.phone

\* C17: with an empty or malformed phone sendVerificationCode makes no API
\* call and leaves isSendingCode and codeCountdown alone; when sendCode
\* returns a failure or throws, codeCountdown is unchanged, no countdown
\* interval is created and isSendingCode is false; a countdown interval is
\* created only by a successful response.
C17_CountdownOnlyOnSuccess ==
  [][/\ (lastCall'.op = "sendVerificationCode"
           /\ (~Truthy(SendCodePhone) \/ ~PhoneRegexTest(SendCodePhone))) =>
          /\ pending' = pending
          /\ lastCall'.payload = NoPayload
          /\ UNCHANGED <<isSendingCode, codeCountdown>>
     /\ (lastCall'.op = "sendCode.then" /\ lastCall'.arg \in {"failure", "threw"}) =>
          /\ UNCHANGED codeCountdown
          /\ CountdownTimers(timers') = CountdownTimers(timers)
          /\ ~isSendingCode'
     /\ ~(CountdownTimers(timers') \subseteq CountdownTimers(timers)) =>
          /\ lastCall'.op = "sendCode.then"
          /\ lastCall'.arg = "success"]_vars

C17_Witness ==
  /\ lastCall.op = "sendCode.then"
  /\ lastCall.arg = "failure"
  /\ codeCountdown = 0
  /\ CountdownTimers(timers) = {}
  /\ ~isSendingCode

\* C18: with sends started only through the resend button, at most one
\* countdown interval is live and codeCountdown stays within
\* 0..sendInterval.
C18_CountdownBounded ==
  /\ Cardinality(CountdownTimers(timers)) <= 1
  /\ codeCountdown \in 0..SendInterval

C18_Witness ==
  /\ lastCall.op = "sendCode.then"
  /\ lastCall.arg = "success"
  /\ codeCountdown = SendInterval
  /\ Cardinality(CountdownTimers(timers)) = 1

\* C19: qrScanned and qrExpired are never both true: a step that sets
\* qrExpired also leaves qrScanned false, and no step sets qrScanned
\* while qrExpired holds.
C19_ScannedExcludesExpired ==
  /\ [](~(qrScanned /\ qrExpired))
  /\ [][/\ (~qrExpired /\ qrExpired') => ~qrScanned'
        /\ (qrExpired /\ ~qrScanned) => ~qrScanned']_vars

C19_Witness ==
  /\ lastCall.op = "qrExpireTimer.callback"
  /\ qrExpired
  /\ ~qrScanned

\* C20: when resetPassword returns success the component is in login mode
\* with no error map carrying a message and isLoading false; when it
\* returns a failure, currentMode and the error maps are as they were and
\* isLoading is false.
C20_ResetPasswordOutcome ==
  [][/\ (lastCall'.op = "resetPassword.then" /\ lastCall'.arg = "success") =>
          /\ currentMode' = "login"
          /\ CarriesNoMessage(loginErrors')
          /\ CarriesNoMessage(registerErrors')
          /\ CarriesNoMessage(forgotErrors')
          /\ ~isLoading'
     /\ (lastCall'.op = "resetPassword.then" /\ lastCall'.arg = "failure") =>
          /\ UNCHANGED <<currentMode, errorVars>>
          /\ ~isLoading']_vars

\* The last step was handleRegister or handleForgotPassword run on a form
\* whose password and confirmation differ.
MismatchedSubmission ==
  \/ /\ lastCall.op = "handleRegister"
     /\ registerForm.password # registerForm.confirmPassword
  \/ /\ lastCall.op = "handleForgotPassword"
     /\ forgotForm.newPassword # forgotForm.confirmPassword

\* C21: when the password and its confirmation differ, handleRegister and
\* handleForgotPassword call no validator and start no auth-store call,
\* and leave isLoading, currentMode and the three error maps unchanged.
C21_MismatchStopsBeforeValidation ==
  [][MismatchedSubmission' =>
       /\ ~lastCall'.validation.called
       /\ lastCall'.payload = NoPayload
       /\ pending' = pending
       /\ UNCHANGED <<isLoading, currentMode, errorVars>>]_vars

C21_Witness ==
  /\ MismatchedSubmission
  /\ lastCall.op = "handleForgotPassword"
  /\ lastCall.toast = "error:password-mismatch"

\* C22: switchMode leaves the four form records, loginType, isLoading,
\* isSendingCode and codeCountdown unchanged, and switchMode('login') also
\* leaves showWechatQR, qrExpired, qrScanned, both QR handles and the
\* timers unchanged.
C22_SwitchModeFrame ==
  [][lastCall'.op = "switchMode" =>
       /\ UNCHANGED <<formVars, loginType, busyVars>>
       /\ lastCall'.arg = "login" =>
            UNCHANGED <<showWechatQR, qrExpired, qrScanned, qrExpireTimer,
                        qrCheckInterval, timers>>]_vars

C22_Witness ==
  /\ lastCall.op = "switchMode"
  /\ lastCall.arg = "login"
  /\ loginType = "password"
  /\ isLoading
  /\ codeCountdown > 0
  /\ showWechatQR
  /\ qrCheckInterval # NULL
  /\ QRTimers(timers) # {}

====
